---- MODULE Spec2Model ----
(***************************************************************************)
(* A model of azkaban/project.py: the Project aggregate (add_file,         *)
(* add_job, merge_into, build) and the remote part (_get_credentials,      *)
(* upload, run).                                                           *)
(*                                                                         *)
(* Strings that the code takes apart (paths, job names, archive names,     *)
(* URLs) are sequences of tokens, so that isabs, '%s.job' % name, the      *)
(* archive writer's stripping of leading separators and url.rstrip('/')    *)
(* are computed and not assumed.  "/" is the path separator token.         *)
(***************************************************************************)
EXTENDS Integers, Sequences, FiniteSets, Bags, TLC

VARIABLES
  jobs,    \* Project._jobs of each project: job name -> job object
  files,   \* Project._files of each project: path -> archive_path (or None)
  disk,    \* the file system: path -> what is stored there
  last,    \* the last Project call: arguments, state before, outcome, handler calls
  rc,      \* the credential file ~/.azkabanrc: alias -> options of its section
  valid,   \* the session ids the server accepts
  issued,  \* how many session ids the server has issued
  rlast,   \* the remote call under way or last made: arguments, position, state
           \* it began in, outcome, requests made
  props,   \* the value each level defines for the property key msg, or Unset
  seen,    \* the test's run of its workflow: position, polls made, what it read
  execution \* the execution on the server: its status and the value its job saw

pvars == <<jobs, files, disk, last>>

rvars == <<rc, valid, issued, rlast>>

evars == <<props, seen, execution>>

vars == <<jobs, files, disk, last, rc, valid, issued, rlast, props, seen, execution>>

-----------------------------------------------------------------------------
(* Bounds and input sets *)

NumJobs == 2

MaxTokens == 2

Projects == {"a", "b"}

JobObjs == 1..NumJobs

JobNames == {<<"j">>, <<"k">>}

AbsPaths == {<<"/", "f">>, <<"/", "g">>}

RelPaths == {<<"f">>}

OutPath == <<"/", "out">>

DiskPaths == AbsPaths \cup {OutPath}

None == [isNone |-> TRUE, s |-> <<>>]

Str(s) == [isNone |-> FALSE, s |-> s]

ArchiveArgs == {None, Str(<<"/", "f">>)}

BuildArchiveArgs == ArchiveArgs \cup {Str(<<"j", ".job">>)}

-----------------------------------------------------------------------------
(* Values *)

EmptyDict == [x \in {} |-> 0]

DictSet(d, k, v) == [x \in (DOMAIN d) \cup {k} |-> IF x = k THEN v ELSE d[x]]

Absent == [kind |-> "absent", entries |-> EmptyBag]

Data == [kind |-> "file", entries |-> EmptyBag]

Zip(b) == [kind |-> "zip", entries |-> b]

exists(dsk, path) == path \in DOMAIN dsk /\ dsk[path].kind # "absent"

isabs(path) == Len(path) > 0 /\ path[1] = "/"

Event(ev, p, name, job) == [ev |-> ev, proj |-> p, name |-> name, job |-> job]

-----------------------------------------------------------------------------
(* Project.add_file: the new _files of the project, or the error raised *)

add_file_mut_noexists(fs, dsk, path, archive_path) ==
  IF ~isabs(path) THEN [err |-> "AzkabanError", files |-> fs]
  ELSE IF path \in DOMAIN fs THEN
    IF fs[path] # archive_path
      THEN [err |-> "AzkabanError", files |-> fs]
      ELSE [err |-> "none", files |-> fs]
  ELSE [err |-> "none", files |-> DictSet(fs, path, archive_path)]

add_file(fs, dsk, path, archive_path) ==
  IF ~isabs(path) THEN [err |-> "AzkabanError", files |-> fs]
  ELSE IF path \in DOMAIN fs THEN
    IF fs[path] # archive_path
      THEN [err |-> "AzkabanError", files |-> fs]
      ELSE [err |-> "none", files |-> fs]
  ELSE IF ~exists(dsk, path) THEN [err |-> "AzkabanError", files |-> fs]
  ELSE [err |-> "none", files |-> DictSet(fs, path, archive_path)]

(* Project.add_job: the new _jobs, the error raised, and what was done in order:
   "bind" is the assignment self._jobs[name] = job, "on_add" the handler call *)

add_job_mut_rebind(p, js, name, job) ==
  IF name \in DOMAIN js
    THEN [err |-> "AzkabanError", jobs |-> DictSet(js, name, job), calls |-> <<>>]
    ELSE [err |-> "none", jobs |-> DictSet(js, name, job),
          calls |-> <<Event("bind", p, name, job), Event("on_add", p, name, job)>>]

add_job(p, js, name, job) ==
  IF name \in DOMAIN js
    THEN [err |-> "AzkabanError", jobs |-> js, calls |-> <<>>]
    ELSE [err |-> "none", jobs |-> DictSet(js, name, job),
          calls |-> <<Event("bind", p, name, job), Event("on_add", p, name, job)>>]

-----------------------------------------------------------------------------
(* Orders in which a dict's items() may come: every permutation of its keys *)

Orders(S) == {o \in [1..Cardinality(S) -> S] : \A i, k \in DOMAIN o : i # k => o[i] # o[k]}

(* Project.merge_into: the two loops, each stopping at the first error *)

RECURSIVE merge_jobs(_, _, _, _, _)
merge_jobs(p, acc, src, order, i) ==
  IF i > Len(order) \/ acc.err # "none" THEN acc
  ELSE LET r == add_job(p, acc.jobs, order[i], src[order[i]])
       IN merge_jobs(p, [err |-> r.err, jobs |-> r.jobs, calls |-> acc.calls \o r.calls],
                     src, order, i + 1)

RECURSIVE merge_files(_, _, _, _, _)
merge_files(acc, dsk, src, order, i) ==
  IF i > Len(order) \/ acc.err # "none" THEN acc
  ELSE merge_files(add_file(acc.files, dsk, order[i], src[order[i]]), dsk, src, order, i + 1)

merge_into_mut_jobs_only(b, sjobs, sfiles, tjobs, tfiles, dsk, jorder, forder) ==
  LET rj == merge_jobs(b, [err |-> "none", jobs |-> tjobs, calls |-> <<>>], sjobs, jorder, 1)
  IN [err |-> rj.err, jobs |-> rj.jobs, files |-> tfiles, calls |-> rj.calls]

merge_into_mut_files_anyway(b, sjobs, sfiles, tjobs, tfiles, dsk, jorder, forder) ==
  LET rj == merge_jobs(b, [err |-> "none", jobs |-> tjobs, calls |-> <<>>], sjobs, jorder, 1)
      rf == merge_files([err |-> "none", files |-> tfiles], dsk, sfiles, forder, 1)
  IN [err |-> IF rj.err # "none" THEN rj.err ELSE rf.err,
      jobs |-> rj.jobs, files |-> rf.files, calls |-> rj.calls]

merge_into(b, sjobs, sfiles, tjobs, tfiles, dsk, jorder, forder) ==
  LET rj == merge_jobs(b, [err |-> "none", jobs |-> tjobs, calls |-> <<>>], sjobs, jorder, 1)
      rf == IF rj.err # "none" THEN [err |-> rj.err, files |-> tfiles]
            ELSE merge_files([err |-> "none", files |-> tfiles], dsk, sfiles, forder, 1)
  IN [err |-> rf.err, jobs |-> rj.jobs, files |-> rf.files, calls |-> rj.calls]

-----------------------------------------------------------------------------
(* Project.build *)

(* '%s.job' % (name, ) *)
job_entry(name) == name \o <<".job">>

(* The name ZipFile.write stores: arcname, or the file's own path when arcname
   is None, without its leading separators *)
RECURSIVE lstrip_sep(_)
lstrip_sep(s) == IF Len(s) > 0 /\ s[1] = "/" THEN lstrip_sep(Tail(s)) ELSE s

file_entry_mut_ignore_arcname(fpath, apath) == lstrip_sep(fpath)

file_entry(fpath, apath) == lstrip_sep(IF apath.isNone THEN fpath ELSE apath.s)

RECURSIVE written(_, _)
written(calls, i) ==
  IF i > Len(calls) THEN EmptyBag
  ELSE IF calls[i].ev = "write" THEN SetToBag({calls[i].name}) (+) written(calls, i + 1)
  ELSE written(calls, i + 1)

RECURSIVE build_jobs_mut_write_first(_, _, _, _)
build_jobs_mut_write_first(p, js, order, i) ==
  IF i > Len(order) THEN <<>>
  ELSE <<Event("write", p, job_entry(order[i]), 0),
         Event("on_build", p, order[i], js[order[i]])>>
         \o build_jobs_mut_write_first(p, js, order, i + 1)

RECURSIVE build_jobs(_, _, _, _)
build_jobs(p, js, order, i) ==
  IF i > Len(order) THEN <<>>
  ELSE <<Event("on_build", p, order[i], js[order[i]]),
         Event("write", p, job_entry(order[i]), 0)>> \o build_jobs(p, js, order, i + 1)

RECURSIVE build_files(_, _, _, _, _, _)
build_files(p, acc, dsk, fs, order, i) ==
  IF i > Len(order) \/ acc.err # "none" THEN acc
  ELSE IF ~exists(dsk, order[i]) THEN [acc EXCEPT !.err = "OSError"]
  ELSE build_files(p, [acc EXCEPT !.calls = @ \o <<Event("write", p, file_entry(order[i], fs[order[i]]), 0)>>],
                   dsk, fs, order, i + 1)

build_mut_open_first(p, js, fs, dsk, path, overwrite, jorder, forder) ==
  IF exists(dsk, path) /\ ~overwrite THEN [err |-> "AzkabanError", disk |-> dsk, calls |-> <<>>]
  ELSE IF ~(Cardinality(DOMAIN js) > 0 \/ Cardinality(DOMAIN fs) > 0)
    THEN [err |-> "AzkabanError", disk |-> [dsk EXCEPT ![path] = Zip(EmptyBag)], calls |-> <<>>]
  ELSE LET opened == [dsk EXCEPT ![path] = Zip(EmptyBag)]
           r == build_files(p, [err |-> "none", calls |-> build_jobs(p, js, jorder, 1)],
                            opened, fs, forder, 1)
       IN [err |-> r.err, disk |-> [dsk EXCEPT ![path] = Zip(written(r.calls, 1))],
           calls |-> r.calls]

build_mut_always_overwrite(p, js, fs, dsk, path, overwrite, jorder, forder) ==
  IF ~(Cardinality(DOMAIN js) > 0 \/ Cardinality(DOMAIN fs) > 0)
    THEN [err |-> "AzkabanError", disk |-> dsk, calls |-> <<>>]
  ELSE LET opened == [dsk EXCEPT ![path] = Zip(EmptyBag)]
           r == build_files(p, [err |-> "none", calls |-> build_jobs(p, js, jorder, 1)],
                            opened, fs, forder, 1)
       IN [err |-> r.err, disk |-> [dsk EXCEPT ![path] = Zip(written(r.calls, 1))],
           calls |-> r.calls]

build(p, js, fs, dsk, path, overwrite, jorder, forder) ==
  IF exists(dsk, path) /\ ~overwrite THEN [err |-> "AzkabanError", disk |-> dsk, calls |-> <<>>]
  ELSE IF ~(Cardinality(DOMAIN js) > 0 \/ Cardinality(DOMAIN fs) > 0)
    THEN [err |-> "AzkabanError", disk |-> dsk, calls |-> <<>>]
  ELSE LET opened == [dsk EXCEPT ![path] = Zip(EmptyBag)]
           r == build_files(p, [err |-> "none", calls |-> build_jobs(p, js, jorder, 1)],
                            opened, fs, forder, 1)
       IN [err |-> r.err, disk |-> [dsk EXCEPT ![path] = Zip(written(r.calls, 1))],
           calls |-> r.calls]

-----------------------------------------------------------------------------
(* The remote part.  A URL is a sequence of tokens; "http://" is its schema
   and "/" a slash.  0 stands for no session id ('' in the credential file,
   None in the code), "" for no alias, user or password given.

   upload and run block at each post() and at getpass, and the server, the
   disk and the person at the terminal move meanwhile.  A call is therefore
   a record c that goes through the positions "probe", "getpass", "login",
   "action" and "response" to "done", one step per blocking point; each operator gives
   the set of outcomes its step can have. *)

SlashUrl == <<"http://", "host", "/">>

BadUrl == <<"host">>

NoUrl == <<>>

ErrMsgs == {"no such project", "no permission"}

(* How upload and run are called: url, user and alias as main passes them *)
Calls ==
  {[url |-> SlashUrl, user |-> "u", alias |-> ""],
   [url |-> SlashUrl, user |-> "", alias |-> ""],
   [url |-> BadUrl, user |-> "u", alias |-> ""],
   [url |-> NoUrl, user |-> "", alias |-> ""],
   [url |-> NoUrl, user |-> "", alias |-> "A"],
   [url |-> BadUrl, user |-> "v", alias |-> "A"],
   [url |-> NoUrl, user |-> "", alias |-> "N"],
   [url |-> NoUrl, user |-> "", alias |-> "M"]}

Passwords == {"", "good"}

Typed == {"good", "bad"}

(* The credential file: A names the server, N is a section without url, M
   is no section. *)
RcFile ==
  [al \in {"A", "N"} |->
     IF al = "A" THEN [url |-> SlashUrl, user |-> "u"] ELSE [user |-> "u"]]

(* RawConfigParser({'user': '', 'session_id': ''}).get *)
rc_get(section, option) ==
  IF option \in DOMAIN section THEN section[option]
  ELSE IF option = "user" THEN ""
  ELSE 0

(* parser.set(alias, 'session_id', session_id) and the file written back *)
rc_set_session(rcv, alias, sid) ==
  [rcv EXCEPT ![alias] = [o \in (DOMAIN @) \cup {"session_id"} |->
                            IF o = "session_id" THEN sid ELSE @[o]]]

(* url.rstrip('/') *)
RECURSIVE rstrip_slash(_)
rstrip_slash(u) ==
  IF Len(u) > 0 /\ u[Len(u)] = "/" THEN rstrip_slash(SubSeq(u, 1, Len(u) - 1)) ELSE u

has_schema(u) == Len(u) > 0 /\ u[1] = "http://"

Request(kind, to, sid, user, password) ==
  [kind |-> kind, to |-> to, sid |-> sid, user |-> user, password |-> password]

(* A call of upload or run as it begins.  rurl, ruser and sid are the local
   variables url, user and session_id of _get_credentials, typed the
   password in use; probed is what the probe found ("valid", "invalid",
   "failed" or "none" when it was not made), opened whether upload could
   open its archive ("yes", "no" or "none" when it did not get there), http
   the post() calls made, also those that raise before anything is sent. *)
NewCall(op, call, password, pre) ==
  [op |-> op, url |-> call.url, user |-> call.user, password |-> password,
   alias |-> call.alias, pc |-> "begin", err |-> "none", msg |-> "",
   rurl |-> call.url, ruser |-> call.user, sid |-> 0, typed |-> password,
   stage |-> "credentials", res |-> "none", reserr |-> "", http |-> <<>>,
   prompts |-> 0, probed |-> "none", opened |-> "none", pre |-> pre]

(* The call ends by raising err *)
Fail(c, err, msg) == [c EXCEPT !.err = err, !.msg = msg, !.pc = "done"]

(* user = user or getuser(): the call goes on to ask for the password, or
   to the login when it was given one *)
ToLogin(c) ==
  [c EXCEPT !.ruser = IF @ # "" THEN @ ELSE "me",
            !.pc = IF c.password # "" THEN "login" ELSE "getpass"]

(* _get_credentials returns (url, session_id) *)
ToAction(c) == [c EXCEPT !.pc = "action", !.stage = "resolved"]

(* Project._get_credentials up to its first blocking point: the credential
   file is read and url, user and session_id are set *)
get_credentials(c, rcv) ==
  LET resolved(url, user, sid0) ==
        LET d == [c EXCEPT !.rurl = rstrip_slash(url), !.ruser = user, !.sid = sid0]
        IN IF sid0 = 0 THEN ToLogin(d) ELSE [d EXCEPT !.pc = "probe"]
  IN IF c.alias # "" THEN
       IF c.alias \notin DOMAIN rcv THEN Fail(c, "AzkabanError", "missing alias")
       ELSE IF "url" \notin DOMAIN rcv[c.alias]
         THEN Fail(c, "AzkabanError", "missing url for alias")
       ELSE resolved(rc_get(rcv[c.alias], "url"), rc_get(rcv[c.alias], "user"),
                     rc_get(rcv[c.alias], "session_id"))
     ELSE IF c.url # NoUrl THEN resolved(c.url, c.user, 0)
     ELSE Fail(c, "ValueError", "")

probe_mut_trust_cache(c, val) ==
  LET sent == c.http \o <<Request("probe", c.rurl \o <<"/manager">>, c.sid, "", "")>>
      d == [c EXCEPT !.http = sent]
  IN IF ~has_schema(c.rurl) THEN {Fail([d EXCEPT !.probed = "failed"], "MissingSchema", "")}
     ELSE {Fail([d EXCEPT !.probed = "failed"], "ConnectionError", ""),
           IF c.sid \in val THEN ToAction([d EXCEPT !.probed = "valid"])
                            ELSE ToAction([d EXCEPT !.probed = "invalid"])}

(* The probe: post('<url>/manager', {'session.id': session_id}).text is
   empty when the server accepts the session id as it receives the request *)
probe(c, val) ==
  LET sent == c.http \o <<Request("probe", c.rurl \o <<"/manager">>, c.sid, "", "")>>
      d == [c EXCEPT !.http = sent]
  IN IF ~has_schema(c.rurl) THEN {Fail([d EXCEPT !.probed = "failed"], "MissingSchema", "")}
     ELSE {Fail([d EXCEPT !.probed = "failed"], "ConnectionError", ""),
           IF c.sid \in val THEN ToAction([d EXCEPT !.probed = "valid"])
                            ELSE ToLogin([d EXCEPT !.probed = "invalid"])}

(* password = password or getpass(...): the person types a password *)
getpass(c) == {[c EXCEPT !.typed = t, !.prompts = @ + 1, !.pc = "login"] : t \in Typed}

login_mut_no_cache(c, rcv, val, iss) ==
  LET d == [c EXCEPT !.http = @ \o <<Request("login", c.rurl, 0, c.ruser, c.typed)>>]
      sid == iss + 1
      end(e) == [c |-> e, rc |-> rcv, valid |-> val, issued |-> iss]
  IN IF ~has_schema(c.rurl)
       THEN {end(Fail(d, "AzkabanError", "invalid azkaban server url"))}
       ELSE {end(Fail(d, "AzkabanError", "unable to connect to azkaban server")),
             end(Fail(d, "ValueError", "")),
             IF c.typed # "good"
               THEN end(Fail(d, "AzkabanError", "Incorrect Login"))
               ELSE [c |-> ToAction([d EXCEPT !.sid = sid]),
                     rc |-> rcv,
                     valid |-> val \cup {sid}, issued |-> sid]}

(* The login POST and what follows its response: the session id the server
   issues is stored under the alias *)
login(c, rcv, val, iss) ==
  LET d == [c EXCEPT !.http = @ \o <<Request("login", c.rurl, 0, c.ruser, c.typed)>>]
      sid == iss + 1
      end(e) == [c |-> e, rc |-> rcv, valid |-> val, issued |-> iss]
  IN IF ~has_schema(c.rurl)
       THEN {end(Fail(d, "AzkabanError", "invalid azkaban server url"))}
       ELSE {end(Fail(d, "AzkabanError", "unable to connect to azkaban server")),
             end(Fail(d, "ValueError", "")),
             IF c.typed # "good"
               THEN end(Fail(d, "AzkabanError", "Incorrect Login"))
               ELSE [c |-> ToAction([d EXCEPT !.sid = sid]),
                     rc |-> IF c.alias # "" THEN rc_set_session(rcv, c.alias, sid) ELSE rcv,
                     valid |-> val \cup {sid}, issued |-> sid]}

(* The arguments of the action post() are built and the request is sent:
   upload (needs_archive) opens its archive first, and the call then waits
   for the response with the file open *)
action_post(c, kind, endpoint, needs_archive, archive_there) ==
  LET req == Request(kind, c.rurl \o <<endpoint>>, c.sid, "", "")
      o == [c EXCEPT !.opened = IF needs_archive THEN "yes" ELSE "none"]
      d == [o EXCEPT !.http = @ \o <<req>>, !.stage = "action"]
  IN IF needs_archive /\ ~archive_there
       THEN Fail([c EXCEPT !.opened = "no", !.stage = "action"],
                 "AzkabanError", "unable to find archive")
     ELSE IF ~has_schema(c.rurl) THEN Fail(d, "AzkabanError", "invalid azkaban server url")
     ELSE [d EXCEPT !.pc = "response"]

action_response_mut_retry(c, val) ==
  {Fail([c EXCEPT !.http = @ \o <<c.http[Len(c.http)]>>],
        "AzkabanError", "unable to connect to azkaban server"),
   Fail(c, "ValueError", "")}
  \cup (IF c.sid \notin val THEN {}
        ELSE {[c EXCEPT !.stage = "done", !.res = "ok", !.pc = "done"]}
             \cup {Fail([c EXCEPT !.res = "error", !.reserr = m], "AzkabanError", m)
                     : m \in ErrMsgs})

(* post() of the action returns or raises, and the response is handled; a
   server that does not accept the session id answers with a page that is
   no JSON *)
action_response(c, val) ==
  {Fail(c, "AzkabanError", "unable to connect to azkaban server"),
   Fail(c, "ValueError", "")}
  \cup (IF c.sid \notin val THEN {}
        ELSE {[c EXCEPT !.stage = "done", !.res = "ok", !.pc = "done"]}
             \cup {Fail([c EXCEPT !.res = "error", !.reserr = m], "AzkabanError", m)
                     : m \in ErrMsgs})

(* Project.upload after _get_credentials, up to the wait in post() *)
upload(c, dsk, archive) == action_post(c, "upload", "/manager", TRUE, exists(dsk, archive))

(* Project.run after _get_credentials, up to the wait in post() *)
run(c) == action_post(c, "executeFlow", "/executor", FALSE, TRUE)

-----------------------------------------------------------------------------
(* Properties of an execution, as the tests of the server set and observe
   them (TestProperties).  A level either defines the key msg or leaves it
   Unset: "job" is the options of the job itself, "runtime" the properties
   passed to run_workflow, "global" project.properties and "embedded" the
   options of the flow job that embeds the job's flow. *)

Levels == {"job", "runtime", "global", "embedded"}

Unset == ""

Messages == {"message", "override"}

(* What a test does: the value it gives msg at each level (Unset: the level
   is left alone, and without an embedded value no flow job is added), the
   message it expects in the job's log (Unset: the log is not read) and the
   status it expects ("": the status is not read) *)
Case(global, job, embedded, runtime, expect, status) ==
  [global |-> global, job |-> job, embedded |-> embedded, runtime |-> runtime,
   expect |-> expect, status |-> status]

Cases ==
  [test_global_properties |->
     Case("message", Unset, Unset, Unset, "message", "SUCCEEDED"),
   test_missing_global_properties |->
     Case(Unset, Unset, Unset, Unset, Unset, "FAILED"),
   test_options_override_global_properties |->
     Case("message", "override", Unset, Unset, "override", "SUCCEEDED"),
   test_runtime_properties_override_global_properties |->
     Case("message", Unset, Unset, "override", "override", "SUCCEEDED"),
   test_options_override_runtime_properties |->
     Case(Unset, "message", Unset, "override", "message", "SUCCEEDED"),
   test_embedded_properties |->
     Case(Unset, Unset, "message", Unset, "message", ""),
   test_global_properties_override_embedded_properties |->
     Case("override", Unset, "message", Unset, "override", ""),
   test_runtime_properties_override_embedded_properties |->
     Case(Unset, Unset, "message", "override", "override", ""),
   test_options_override_embedded_properties |->
     Case(Unset, "override", "message", Unset, "override", "")]

Tests == DOMAIN Cases

TestCase_mut_embedded_expected(t) ==
  IF t = "test_global_properties_override_embedded_properties"
    THEN [Cases[t] EXCEPT !.expect = "message"]
    ELSE Cases[t]

(* The body of test t *)
TestCase(t) == Cases[t]

(* The steps of test t in order: what it sets up, _run_workflow, its reads *)
Script(t) ==
  LET c == TestCase(t) IN
  (IF c.global # Unset THEN <<"properties">> ELSE <<>>)
    \o <<"command">>
    \o (IF c.embedded # Unset THEN <<"flow">> ELSE <<>>)
    \o <<"workflow", "upload", "run", "poll">>
    \o (IF c.expect # Unset THEN <<"logs">> ELSE <<>>)
    \o (IF c.status # "" THEN <<"status">> ELSE <<>>)
    \o <<"done">>

(* The levels of p that define msg *)
DefinedIn(p) == {l \in Levels : p[l] # Unset}

(* The level of S that comes first in the order *)
First(order, S) == order[CHOOSE i \in DOMAIN order :
                           order[i] \in S /\ \A k \in 1..(i - 1) : order[k] \notin S]

(* The value ${msg} has in the job's command on a server that resolves
   properties in the given order of levels: Unset makes the job fail *)
job_sees(p, order) == IF DefinedIn(p) = {} THEN Unset ELSE p[First(order, DefinedIn(p))]

(* range(5): the turns of the loop that waits for the launch *)
MaxPolls == 5

-----------------------------------------------------------------------------
(* State *)

NoCall == [op |-> "none"]

NoExec == [state |-> "none", ran |-> FALSE, value |-> Unset]

Init ==
  /\ jobs = [p \in Projects |-> EmptyDict]
  /\ files = [p \in Projects |-> EmptyDict]
  /\ disk = [d \in DiskPaths |-> IF d = OutPath THEN Absent ELSE Data]
  /\ last = NoCall
  /\ rc = RcFile
  /\ valid = {}
  /\ issued = 0
  /\ rlast = NoCall
  /\ props = [l \in Levels |-> Unset]
  /\ seen = NoCall
  /\ execution = NoExec

Before == [jobs |-> jobs, files |-> files, disk |-> disk]

AddFile(p, path, archive_path) ==
  LET r == add_file(files[p], disk, path, archive_path) IN
  /\ files' = [files EXCEPT ![p] = r.files]
  /\ last' = [op |-> "add_file", proj |-> p, path |-> path, archive_path |-> archive_path,
              err |-> r.err, calls |-> <<>>, pre |-> Before]
  /\ UNCHANGED <<jobs, disk, rvars, evars>>

AddJob(p, name, job) ==
  LET r == add_job(p, jobs[p], name, job) IN
  /\ jobs' = [jobs EXCEPT ![p] = r.jobs]
  /\ last' = [op |-> "add_job", proj |-> p, name |-> name, job |-> job,
              err |-> r.err, calls |-> r.calls, pre |-> Before]
  /\ UNCHANGED <<files, disk, rvars, evars>>

MergeInto(a, b) ==
  \E jorder \in Orders(DOMAIN jobs[a]), forder \in Orders(DOMAIN files[a]) :
    LET r == merge_into(b, jobs[a], files[a], jobs[b], files[b], disk, jorder, forder) IN
    /\ jobs' = [jobs EXCEPT ![b] = r.jobs]
    /\ files' = [files EXCEPT ![b] = r.files]
    /\ last' = [op |-> "merge_into", proj |-> a, into |-> b,
                err |-> r.err, calls |-> r.calls, pre |-> Before]
    /\ UNCHANGED <<disk, rvars, evars>>

Build(p, path, overwrite) ==
  \E jorder \in Orders(DOMAIN jobs[p]), forder \in Orders(DOMAIN files[p]) :
    LET r == build(p, jobs[p], files[p], disk, path, overwrite, jorder, forder) IN
    /\ disk' = r.disk
    /\ last' = [op |-> "build", proj |-> p, path |-> path, overwrite |-> overwrite,
                err |-> r.err, calls |-> r.calls, pre |-> Before]
    /\ UNCHANGED <<jobs, files, rvars, evars>>

(* The environment: files appear and disappear on disk between calls *)
Touch(path) ==
  /\ disk[path].kind = "absent"
  /\ disk' = [disk EXCEPT ![path] = Data]
  /\ last' = NoCall
  /\ UNCHANGED <<jobs, files, rvars, evars>>

Remove(path) ==
  /\ disk[path].kind # "absent"
  /\ disk' = [disk EXCEPT ![path] = Absent]
  /\ last' = NoCall
  /\ UNCHANGED <<jobs, files, rvars, evars>>

(* The add_job calls the projects are offered: the first job under either
   name in both projects, and every other job under the first name in b *)
JobArgs ==
  {x \in Projects \X JobNames \X JobObjs : x[3] = 1 \/ (x[1] = "b" /\ x[2] = <<"j">>)}

Next ==
  \/ \E p \in Projects, path \in AbsPaths \cup RelPaths, ap \in ArchiveArgs : AddFile(p, path, ap)
  \/ \E x \in JobArgs : AddJob(x[1], x[2], x[3])
  \/ \E a \in Projects, b \in Projects : MergeInto(a, b)
  \/ Touch(<<"/", "f">>)
  \/ Remove(<<"/", "f">>)

Spec == Init /\ [][Next]_vars

(* One project that is filled and built *)
NextBuild ==
  \/ \E path \in AbsPaths, ap \in BuildArchiveArgs : AddFile("a", path, ap)
  \/ \E name \in JobNames, job \in JobObjs : AddJob("a", name, job)
  \/ \E overwrite \in BOOLEAN : Build("a", OutPath, overwrite)
  \/ \E path \in DiskPaths : Touch(path)
  \/ \E path \in DiskPaths : Remove(path)

SpecBuild == Init /\ [][NextBuild]_vars

(* Jobs are added to one project, merged into the other, and both are built:
   every call that fires a job handler *)
NextHandlers ==
  \/ \E name \in JobNames, job \in JobObjs : AddJob("a", name, job)
  \/ \E a \in Projects, b \in Projects : MergeInto(a, b)
  \/ \E p \in Projects, overwrite \in BOOLEAN : Build(p, OutPath, overwrite)
  \/ AddFile("a", <<"/", "f">>, None)
  \/ Remove(<<"/", "f">>)
  \/ Remove(OutPath)

SpecHandlers == Init /\ [][NextHandlers]_vars

RBefore == [rc |-> rc, valid |-> valid, issued |-> issued, archive |-> exists(disk, OutPath)]

(* No remote call is under way: the program makes one call at a time *)
Idle == IF rlast.op = "none" THEN TRUE ELSE rlast.pc = "done"

At_(pc) == rlast.op # "none" /\ rlast.pc = pc

(* upload or run is called: _get_credentials reads the credential file *)
Begin(op, call, password) ==
  /\ Idle
  /\ rlast' = get_credentials(NewCall(op, call, password, RBefore), rc)
  /\ UNCHANGED <<rc, valid, issued, pvars, evars>>

Upload(call, password) == Begin("upload", call, password)

Run(call, password) == Begin("run", call, password)

(* The server answers the probe, or cannot be reached *)
Probe ==
  /\ At_("probe")
  /\ \E c \in probe(rlast, valid) : rlast' = c
  /\ UNCHANGED <<rc, valid, issued, pvars, evars>>

(* The person at the terminal types a password *)
Getpass ==
  /\ At_("getpass")
  /\ \E c \in getpass(rlast) : rlast' = c
  /\ UNCHANGED <<rc, valid, issued, pvars, evars>>

(* The server answers the login; it issues at most MaxTokens session ids *)
Login ==
  /\ At_("login")
  /\ \E r \in login(rlast, rc, valid, issued) :
       /\ r.issued <= MaxTokens
       /\ rlast' = r.c
       /\ rc' = r.rc
       /\ valid' = r.valid
       /\ issued' = r.issued
  /\ UNCHANGED <<pvars, evars>>

(* The archive is opened and the action POST sent *)
ActionPost ==
  /\ At_("action")
  /\ rlast' = IF rlast.op = "upload" THEN upload(rlast, disk, OutPath) ELSE run(rlast)
  /\ UNCHANGED <<rc, valid, issued, pvars, evars>>

(* The server answers the action POST, or cannot be reached *)
ActionResponse ==
  /\ At_("response")
  /\ \E c \in action_response(rlast, valid) : rlast' = c
  /\ UNCHANGED <<rc, valid, issued, pvars, evars>>

(* The environment: the server lets a session expire, between calls or
   while one is under way *)
Expire(sid) ==
  /\ sid \in valid
  /\ valid' = valid \ {sid}
  /\ rlast' = IF Idle THEN NoCall ELSE rlast
  /\ UNCHANGED <<rc, issued, pvars, evars>>

NextRemote ==
  \/ \E call \in Calls, password \in Passwords : Upload(call, password)
  \/ \E call \in Calls, password \in Passwords : Run(call, password)
  \/ Probe
  \/ Getpass
  \/ Login
  \/ ActionPost
  \/ ActionResponse
  \/ \E sid \in 1..MaxTokens : Expire(sid)
  \/ Touch(OutPath)
  \/ Remove(OutPath)

SpecRemote == Init /\ [][NextRemote]_vars

(* The test cases and the server, as TestProperties drives them.  A test
   starts on a new project, sets its properties, adds its jobs, runs the
   workflow and reads the log or the status; the server launches the
   execution, runs the job and ends it while the test polls and reads.
   seen.at is the test's position in its script. *)

Pc(t) == Script(t.test)[t.at]

InTest(pc) == seen.op = "test" /\ Pc(seen) = pc

Advance(t) == [t EXCEPT !.at = @ + 1]

(* The test ends with an exception: AzkabanError, or the AssertionError of
   ok_ and eq_ *)
Raise(t, err) == [t EXCEPT !.at = Len(Script(t.test)), !.err = err]

TestRun(test) ==
  [op |-> "test", test |-> test, at |-> 1, polls |-> 0, value |-> Unset,
   logs |-> "none", status |-> "", err |-> "none"]

(* _TestSession.setup (and the teardown before it): test t starts on a new
   project *)
Setup(t) ==
  /\ IF seen = NoCall THEN TRUE ELSE Pc(seen) = "done"
  /\ jobs' = [jobs EXCEPT !["a"] = EmptyDict]
  /\ files' = [files EXCEPT !["a"] = EmptyDict]
  /\ props' = [l \in Levels |-> Unset]
  /\ seen' = TestRun(t)
  /\ execution' = NoExec
  /\ last' = NoCall
  /\ UNCHANGED <<disk, rvars>>

(* project.properties = {'msg': value}: the project-global level *)
SetProperties ==
  /\ InTest("properties")
  /\ props' = [props EXCEPT !["global"] = TestCase(seen.test).global]
  /\ seen' = Advance(seen)
  /\ UNCHANGED <<execution, pvars, rvars>>

(* project.add_job(name, Job(options, kwargs)): a job whose options define
   msg, or not, at level *)
AddTestJob(name, job, level, value) ==
  LET r == add_job("a", jobs["a"], name, job) IN
  /\ jobs' = [jobs EXCEPT !["a"] = r.jobs]
  /\ last' = [op |-> "add_job", proj |-> "a", name |-> name, job |-> job,
              err |-> r.err, calls |-> r.calls, pre |-> Before]
  /\ props' = IF r.err = "none" THEN [props EXCEPT ![level] = value] ELSE props
  /\ seen' = IF r.err = "none" THEN Advance(seen) ELSE Raise(seen, r.err)
  /\ UNCHANGED <<files, disk, execution, rvars>>

(* _add_command_job('foo', 'echo ${msg}', **kwargs): the job that echoes msg *)
AddCommandJob ==
  /\ InTest("command")
  /\ AddTestJob(<<"j">>, 1, "job", TestCase(seen.test).job)

(* _add_flow_job('bar', 'foo', **kwargs): the flow job that embeds foo *)
AddFlowJob ==
  /\ InTest("flow")
  /\ AddTestJob(<<"k">>, 2, "embedded", TestCase(seen.test).embedded)

(* _run_workflow(flow, **kwargs) begins, kwargs being the runtime level:
   project.build(path) on the path temppath gives *)
StartWorkflow ==
  /\ InTest("workflow")
  /\ props' = [props EXCEPT !["runtime"] = TestCase(seen.test).runtime]
  /\ \E jorder \in Orders(DOMAIN jobs["a"]), forder \in Orders(DOMAIN files["a"]) :
       LET r == build("a", jobs["a"], files["a"], disk, OutPath, FALSE, jorder, forder)
       IN /\ last' = [op |-> "build", proj |-> "a", path |-> OutPath, overwrite |-> FALSE,
                      err |-> r.err, calls |-> r.calls, pre |-> Before]
          /\ disk' = r.disk
          /\ seen' = IF r.err = "none" THEN Advance(seen) ELSE Raise(seen, r.err)
  /\ UNCHANGED <<jobs, files, execution, rvars>>

(* session.upload_project: the server takes the archive or answers with an
   error.  The with block ends here; whether temppath then leaves the
   archive or removes it is not decided by this code *)
UploadProject ==
  /\ InTest("upload")
  /\ \E ok \in BOOLEAN :
       seen' = IF ok THEN Advance(seen) ELSE Raise(seen, "AzkabanError")
  /\ \E left \in {disk[OutPath], Absent} : disk' = [disk EXCEPT ![OutPath] = left]
  /\ UNCHANGED <<jobs, files, last, props, execution, rvars>>

(* session.run_workflow(...)['execid']: the server submits an execution *)
RunWorkflow ==
  /\ InTest("run")
  /\ \E ok \in BOOLEAN :
       /\ seen' = IF ok THEN Advance(seen) ELSE Raise(seen, "AzkabanError")
       /\ execution' = IF ok THEN [NoExec EXCEPT !.state = "submitted"] ELSE execution
  /\ UNCHANGED <<pvars, props, rvars>>

(* One turn of the loop: sleep(1), then get_execution_status, which raises
   AzkabanError until the execution is launched; the loop ends at the first
   answer or after MaxPolls turns *)
Poll ==
  /\ InTest("poll")
  /\ seen' = IF execution.state # "submitted" \/ seen.polls + 1 = MaxPolls
               THEN Advance([seen EXCEPT !.polls = @ + 1])
               ELSE [seen EXCEPT !.polls = @ + 1]
  /\ UNCHANGED <<pvars, props, execution, rvars>>

(* ok_(expected in session.get_job_logs(exec_id, job)['data']): the log
   holds what the job has echoed so far *)
ReadLogs ==
  /\ InTest("logs")
  /\ seen' = IF execution.state = "submitted" THEN Raise(seen, "AzkabanError")
             ELSE LET t == [seen EXCEPT !.value = execution.value,
                                        !.logs = IF execution.ran THEN "complete"
                                                                  ELSE "partial"]
                  IN IF execution.value = TestCase(seen.test).expect
                       THEN Advance(t) ELSE Raise(t, "AssertionError")
  /\ UNCHANGED <<pvars, props, execution, rvars>>

(* eq_(session.get_execution_status(exec_id)['status'], expected) *)
ReadStatus ==
  /\ InTest("status")
  /\ seen' = IF execution.state = "submitted" THEN Raise(seen, "AzkabanError")
             ELSE LET t == [seen EXCEPT !.status = execution.state]
                  IN IF execution.state = TestCase(seen.test).status
                       THEN Advance(t) ELSE Raise(t, "AssertionError")
  /\ UNCHANGED <<pvars, props, execution, rvars>>

(* The server launches the execution *)
Launch ==
  /\ execution.state = "submitted"
  /\ execution' = [execution EXCEPT !.state = "RUNNING"]
  /\ UNCHANGED <<pvars, props, seen, rvars>>

(* The job runs its command with the value it sees for msg; in which order
   the server goes through the levels is not decided by this code *)
Execute ==
  /\ execution.state = "RUNNING" /\ ~execution.ran
  /\ \E order \in Orders(Levels) :
       execution' = [execution EXCEPT !.ran = TRUE, !.value = job_sees(props, order)]
  /\ UNCHANGED <<pvars, props, seen, rvars>>

(* The execution ends: the job has failed when msg was not defined *)
Finish ==
  /\ execution.state = "RUNNING" /\ execution.ran
  /\ execution' = [execution EXCEPT
                     !.state = IF execution.value = Unset THEN "FAILED" ELSE "SUCCEEDED"]
  /\ UNCHANGED <<pvars, props, seen, rvars>>

NextProperties ==
  \/ \E t \in Tests : Setup(t)
  \/ SetProperties
  \/ AddCommandJob
  \/ AddFlowJob
  \/ StartWorkflow
  \/ UploadProject
  \/ RunWorkflow
  \/ Poll
  \/ ReadLogs
  \/ ReadStatus
  \/ Launch
  \/ Execute
  \/ Finish

SpecProperties == Init /\ [][NextProperties]_vars

-----------------------------------------------------------------------------
(* Properties of the Project calls.  last.pre is the state the call began in. *)

Raised == last.err = "AzkabanError"

Returned == last.err = "none"

(* C1: add_job(name, job) raises AzkabanError whenever name is already a job
   of the project; the job mapping is then unchanged (the first-registered
   job stays bound to name) and the rejected job's on_add is not called. *)
C1_DuplicateJobRejected ==
  (last.op = "add_job" /\ last.name \in DOMAIN last.pre.jobs[last.proj])
    => /\ Raised
       /\ jobs = last.pre.jobs
       /\ jobs[last.proj][last.name] = last.pre.jobs[last.proj][last.name]
       /\ last.calls = <<>>

(* A second, different job is offered under a name that a merge_into put
   into the project. *)
C1_Witness ==
  /\ last.op = "add_job"
  /\ last.name \in DOMAIN last.pre.jobs[last.proj]
  /\ last.pre.jobs[last.proj][last.name] # last.job
  /\ last.proj = "b"
  /\ last.name \in DOMAIN jobs["a"]
  /\ Raised

(* The destination an archive_path argument denotes: the path itself when
   it is omitted *)
Destination(path, archive_path) == IF archive_path.isNone THEN path ELSE archive_path.s

(* C2: add_file on an already-registered path raises AzkabanError when its
   archive destination differs from the registered one, and succeeds
   leaving the file mapping unchanged when the destination is the same, an
   omitted archive_path denoting the path itself. *)
C2_DuplicateFilesMustAgree ==
  (last.op = "add_file" /\ last.path \in DOMAIN last.pre.files[last.proj])
    => IF Destination(last.path, last.pre.files[last.proj][last.path])
            = Destination(last.path, last.archive_path)
         THEN Returned /\ files = last.pre.files
         ELSE Raised

(* C3 as stated: add_file raises AzkabanError if path is relative or does
   not exist on disk at the time of the call, in every project state, and
   the file mapping is then unchanged. *)
C3_MissingFileAlwaysRejected ==
  (last.op = "add_file" /\ (~isabs(last.path) \/ ~exists(last.pre.disk, last.path)))
    => Raised /\ files = last.pre.files

(* C3 amended: add_file raises AzkabanError if path is relative, or if path
   is not yet registered in the project and does not exist on disk at the
   time of the call; the file mapping is then unchanged. *)
C3_MissingNewFileRejected ==
  (/\ last.op = "add_file"
   /\ \/ ~isabs(last.path)
      \/ /\ last.path \notin DOMAIN last.pre.files[last.proj]
         /\ ~exists(last.pre.disk, last.path))
    => Raised /\ files = last.pre.files

(* An absolute path that is not registered and not on disk is offered. *)
C3_Witness ==
  /\ last.op = "add_file"
  /\ isabs(last.path)
  /\ last.path \notin DOMAIN last.pre.files[last.proj]
  /\ ~exists(last.pre.disk, last.path)
  /\ Raised

IsEmpty(d) == DOMAIN d = {}

(* C4: build on a project with no jobs and no files raises AzkabanError for
   either value of overwrite, without creating, truncating or modifying
   the file at path and without calling any job handler. *)
C4_EmptyBuildRejected ==
  (/\ last.op = "build"
   /\ IsEmpty(last.pre.jobs[last.proj])
   /\ IsEmpty(last.pre.files[last.proj]))
    => Raised /\ disk = last.pre.disk /\ last.calls = <<>>

(* An empty project is built with overwrite onto an existing file. *)
C4_Witness ==
  /\ last.op = "build"
  /\ IsEmpty(last.pre.jobs[last.proj])
  /\ IsEmpty(last.pre.files[last.proj])
  /\ last.overwrite
  /\ exists(last.pre.disk, last.path)
  /\ Raised

(* C5: build(path, overwrite=False) raises AzkabanError whenever something
   exists at path, whatever the project contains, and leaves it untouched;
   a build changes what exists at path only when overwrite is true. *)
C5_NoOverwriteUnlessAsked ==
  last.op = "build" =>
    /\ (~last.overwrite /\ exists(last.pre.disk, last.path))
         => Raised /\ disk = last.pre.disk
    /\ (exists(last.pre.disk, last.path) /\ disk[last.path] # last.pre.disk[last.path])
         => last.overwrite

(* A project with a job and a file is built without overwrite onto an
   archive an earlier build left there. *)
C5_Witness ==
  /\ last.op = "build"
  /\ ~last.overwrite
  /\ last.pre.disk[last.path].kind = "zip"
  /\ ~IsEmpty(last.pre.jobs[last.proj])
  /\ ~IsEmpty(last.pre.files[last.proj])
  /\ Raised

(* The entry names a build of the project is to write *)
JobEntries(js) == {job_entry(n) : n \in DOMAIN js}

FileEntries(fs) == {lstrip_sep(Destination(f, fs[f])) : f \in DOMAIN fs}

(* How many jobs and files of the project go to entry name e *)
Sources(js, fs, e) ==
  Cardinality({n \in DOMAIN js : job_entry(n) = e})
    + Cardinality({f \in DOMAIN fs : lstrip_sep(Destination(f, fs[f])) = e})

Archive == disk[last.path].entries

(* C6 as stated: a successful build writes exactly one '<name>.job' entry
   for each job and one entry for each registered file at its archive path
   (the path itself when none was given), and no entry name occurs twice. *)
C6_EntriesExactAndDistinct ==
  (last.op = "build" /\ Returned) =>
    /\ disk[last.path].kind = "zip"
    /\ BagToSet(Archive) = JobEntries(jobs[last.proj]) \cup FileEntries(files[last.proj])
    /\ \A e \in BagToSet(Archive) : Archive[e] = 1

(* C6 amended: a successful build writes one '<name>.job' entry for each job
   and one entry for each registered file at its archive path (the path
   itself when none was given), and nothing else; an entry name occurs as
   many times as there are jobs and files that go to it, which is more than
   once when two destinations coincide. *)
C6_EntriesOnePerJobAndFile ==
  (last.op = "build" /\ Returned) =>
    /\ disk[last.path].kind = "zip"
    /\ BagToSet(Archive) = JobEntries(jobs[last.proj]) \cup FileEntries(files[last.proj])
    /\ \A e \in BagToSet(Archive) : Archive[e] = Sources(jobs[last.proj], files[last.proj], e)
    /\ BagCardinality(Archive)
         = Cardinality(DOMAIN jobs[last.proj]) + Cardinality(DOMAIN files[last.proj])

(* A project with two jobs and two files, one of them without archive path
   and one with an archive path that names a job file, is built. *)
C6_Witness ==
  /\ last.op = "build"
  /\ Returned
  /\ Cardinality(DOMAIN jobs[last.proj]) = 2
  /\ Cardinality(DOMAIN files[last.proj]) = 2
  /\ \E f \in DOMAIN files[last.proj] : files[last.proj][f].isNone
  /\ \E e \in BagToSet(Archive) : Archive[e] = 2

(* C7: when a.merge_into(b) returns normally, every job of a is a job of b
   under the same name and every file of a is a file of b with the same
   archive destination, everything b held before is still there unchanged,
   and a's jobs and files are unchanged; it raises AzkabanError if a job
   name of a is already present in b or a file of a is registered in b with
   a different destination. *)
C7_MergeCopiesAll ==
  last.op = "merge_into" =>
    LET a == last.proj
        b == last.into
        pre == last.pre
    IN /\ Returned =>
            /\ \A n \in DOMAIN pre.jobs[a] :
                 n \in DOMAIN jobs[b] /\ jobs[b][n] = pre.jobs[a][n]
            /\ \A f \in DOMAIN pre.files[a] :
                 f \in DOMAIN files[b] /\ files[b][f] = pre.files[a][f]
            /\ \A n \in DOMAIN pre.jobs[b] :
                 n \in DOMAIN jobs[b] /\ jobs[b][n] = pre.jobs[b][n]
            /\ \A f \in DOMAIN pre.files[b] :
                 f \in DOMAIN files[b] /\ files[b][f] = pre.files[b][f]
            /\ jobs[a] = pre.jobs[a]
            /\ files[a] = pre.files[a]
       /\ (\/ DOMAIN pre.jobs[a] \cap DOMAIN pre.jobs[b] # {}
           \/ \E f \in DOMAIN pre.files[a] \cap DOMAIN pre.files[b] :
                pre.files[a][f] # pre.files[b][f])
            => Raised

(* A project with jobs and a file is merged into another project that
   already holds a job of its own and the same file. *)
C7_Witness ==
  /\ last.op = "merge_into"
  /\ Returned
  /\ last.proj # last.into
  /\ Cardinality(DOMAIN last.pre.jobs[last.proj]) >= 1
  /\ ~IsEmpty(last.pre.files[last.proj])
  /\ ~IsEmpty(last.pre.jobs[last.into])
  /\ jobs[last.into] # last.pre.jobs[last.into]

-----------------------------------------------------------------------------
(* Properties of the remote calls, stated of a call that has returned or
   raised.  rlast.pre is the state the call began in, rlast.http the post()
   calls it made, in order, rlast.probed what the server answered to the
   probe and rlast.opened whether the archive was there when upload opened
   it. *)

IsRemote == rlast.op \in {"upload", "run"} /\ rlast.pc = "done"

Count(http, kinds) == Cardinality({i \in DOMAIN http : http[i].kind \in kinds})

(* The call found a section with a url under its alias *)
ViaAlias ==
  /\ rlast.alias \in DOMAIN rlast.pre.rc
  /\ "url" \in DOMAIN rlast.pre.rc[rlast.alias]

Direct == rlast.alias = "" /\ rlast.url # NoUrl

(* The session_id the credential file held under the alias *)
Cached == IF ViaAlias /\ "session_id" \in DOMAIN rlast.pre.rc[rlast.alias]
            THEN rlast.pre.rc[rlast.alias]["session_id"] ELSE 0

(* The probe call was made and the server answered it *)
ProbeAnswered ==
  /\ Count(rlast.http, {"probe"}) = 1
  /\ rlast.probed \in {"valid", "invalid"}

(* The probe was made with the cached session id and the server accepted it *)
ProbeAccepted == ViaAlias /\ Cached # 0 /\ rlast.probed = "valid"

(* ... and the server reported it invalid *)
ProbeRejected == ViaAlias /\ Cached # 0 /\ rlast.probed = "invalid"

NoValidToken ==
  \/ Direct
  \/ ViaAlias /\ Cached = 0
  \/ ProbeRejected

CredentialsOk == rlast.stage # "credentials"

(* C8: credential resolution issues the login call, and asks for a password
   only if none was supplied, exactly when there is no valid cached token
   (url given without alias, no cached session_id, or the probe reports
   the cached one invalid).  A cached token that the probe accepts is
   returned with no login call and no prompt; for one the probe reports
   expired the token returned is the new one from login. *)
C8_LoginIffNoValidToken ==
  IsRemote =>
    /\ Count(rlast.http, {"login"}) = (IF NoValidToken THEN 1 ELSE 0)
    /\ rlast.prompts = (IF NoValidToken /\ rlast.password = "" THEN 1 ELSE 0)
    /\ (ViaAlias /\ Cached # 0) => (rlast.http # <<>> /\ rlast.http[1].kind = "probe"
                                     /\ rlast.http[1].sid = Cached)
    /\ ProbeAccepted => CredentialsOk /\ rlast.sid = Cached
    /\ (ProbeRejected /\ CredentialsOk)
         => /\ rlast.sid # Cached
            /\ rlast.sid \notin rlast.pre.valid
            /\ rlast.sid > rlast.pre.issued
            /\ rlast.http[2].kind = "login"

(* The alias holds a session id that the server lets expire while the call
   is under way, before the probe: the probe is answered, a password is
   asked for and the login returns a new session id. *)
C8_Witness ==
  /\ IsRemote
  /\ ProbeRejected
  /\ Cached \in rlast.pre.valid
  /\ CredentialsOk
  /\ rlast.prompts = 1
  /\ rlast.sid > rlast.pre.issued

LoggedIn == CredentialsOk /\ Count(rlast.http, {"login"}) = 1

(* C9: the credential file is written only after a successful login made
   through an alias; the session_id stored under that alias is then the
   token returned, and no other option of any section changes; a resolution
   with that alias sends the stored token to the probe and reuses it without
   logging in when the server accepts it.  A resolution without alias, one
   that reuses a valid cached token and a login that fails leave the file
   unchanged. *)
C9_CacheOnlyAfterAliasLogin ==
  IsRemote =>
    /\ (rc # rlast.pre.rc) => (ViaAlias /\ LoggedIn)
    /\ (ViaAlias /\ LoggedIn) =>
         /\ "session_id" \in DOMAIN rc[rlast.alias]
         /\ rc[rlast.alias]["session_id"] = rlast.sid
         /\ rlast.sid > rlast.pre.issued
         /\ DOMAIN rc = DOMAIN rlast.pre.rc
         /\ \A al \in DOMAIN rc : \A o \in DOMAIN rlast.pre.rc[al] :
              (al # rlast.alias \/ o # "session_id") => rc[al][o] = rlast.pre.rc[al][o]
    /\ ProbeAccepted
         => Count(rlast.http, {"login"}) = 0 /\ rlast.sid = Cached
    /\ (~ViaAlias \/ ~LoggedIn) => rc = rlast.pre.rc

(* A login through the alias succeeds and replaces the session id that the
   file held. *)
C9_Witness ==
  /\ IsRemote
  /\ ViaAlias
  /\ LoggedIn
  /\ Cached # 0
  /\ "session_id" \in DOMAIN rc[rlast.alias]
  /\ rc[rlast.alias]["session_id"] # Cached

ActionKind == IF rlast.op = "upload" THEN "upload" ELSE "executeFlow"

Endpoint == IF rlast.op = "upload" THEN "/manager" ELSE "/executor"

(* The one action POST, when made, is the last call, goes to the endpoint of
   the resolved url and carries the resolved session id; the response
   decides the outcome *)
ActionWellFormed ==
  /\ Count(rlast.http, {"upload", "executeFlow"}) <= 1
  /\ Count(rlast.http, {"upload", "executeFlow"}) = 1 =>
       LET req == rlast.http[Len(rlast.http)]
       IN /\ CredentialsOk
          /\ req.kind = ActionKind
          /\ req.to = rlast.rurl \o <<Endpoint>>
          /\ req.sid = rlast.sid
  /\ rlast.res = "error" => rlast.err = "AzkabanError" /\ rlast.msg = rlast.reserr
  /\ rlast.res = "ok" => rlast.err = "none"
  /\ rlast.res # "none" => Count(rlast.http, {"upload", "executeFlow"}) = 1

(* C10 as stated: upload and run each send exactly one action POST once
   credential resolution has succeeded (none before), carrying the session
   token it returned, and never retry it; an 'error' field in the response
   is raised as AzkabanError with that message, otherwise the response is
   returned. *)
C10_ExactlyOneActionPost ==
  IsRemote =>
    /\ ActionWellFormed
    /\ Count(rlast.http, {"upload", "executeFlow"}) = (IF CredentialsOk THEN 1 ELSE 0)

(* C10 amended: upload and run each send at most one action POST, only after
   credential resolution has succeeded and carrying the session token it
   returned, and never retry it: exactly one, except that upload sends none
   and raises AzkabanError when the archive cannot be opened.  An 'error'
   field in the response is raised as AzkabanError with that message,
   otherwise the response is returned. *)
C10_OneActionPostUnlessNoArchive ==
  IsRemote =>
    /\ ActionWellFormed
    /\ Count(rlast.http, {"upload", "executeFlow"})
         = (IF CredentialsOk /\ rlast.opened # "no" THEN 1 ELSE 0)
    /\ rlast.opened = "no"
         => rlast.op = "upload" /\ CredentialsOk /\ rlast.err = "AzkabanError"
    /\ (rlast.op = "upload" /\ CredentialsOk) => rlast.opened # "none"

(* An upload logs in, sends its POST and the server answers with an error. *)
C10_Witness ==
  /\ IsRemote
  /\ rlast.op = "upload"
  /\ LoggedIn
  /\ rlast.res = "error"
  /\ Count(rlast.http, {"upload"}) = 1

-----------------------------------------------------------------------------
(* C11: every failure of build, upload, run and credential resolution is
   raised as AzkabanError and no other exception type escapes (a registered
   file missing at build time, a missing archive, a missing alias or url,
   neither url nor alias given, a connection failure or malformed URL on
   the probe, login or action call, an error response), so that main
   always prints it and exits with status 1. *)
C11_OnlyAzkabanErrorEscapes ==
  /\ last.op = "build" => last.err \in {"none", "AzkabanError"}
  /\ IsRemote => rlast.err \in {"none", "AzkabanError"}

-----------------------------------------------------------------------------
(* Property precedence *)

Defined == DefinedIn(props)

(* The test has run to its end and none of its assertions failed *)
Passed == seen.op = "test" /\ Pc(seen) = "done" /\ seen.err = "none"

(* In a test that passes after reading the job's log, the job has seen the
   value of the level that comes first in the order among those defining
   msg *)
Follows(order) ==
  (Passed /\ seen.logs # "none") =>
    /\ Defined # {}
    /\ seen.logs = "complete"
    /\ seen.value = props[First(order, Defined)]

(* C12 as stated: the value a job sees follows job-level options >
   runtime-supplied properties > embedded-flow properties > project-global
   properties: for every pair of levels the value from the higher level is
   the one used. *)
C12_EmbeddedAboveGlobal == Follows(<<"job", "runtime", "embedded", "global">>)

(* C12 amended: the value a job sees follows job-level options >
   runtime-supplied properties > project-global properties > embedded-flow
   properties: for every pair of levels the tests of the repository pass
   only when the value from the higher level is the one used. *)
C12_GlobalAboveEmbedded == Follows(<<"job", "runtime", "global", "embedded">>)

(* The test that defines msg at the project-global and at the embedded-flow
   level passes: it ends after reading the log of the embedded job. *)
C12_Witness ==
  /\ Passed
  /\ seen.test = "test_global_properties_override_embedded_properties"
  /\ DOMAIN jobs["a"] = {<<"j">>, <<"k">>}
  /\ seen.logs = "complete"
  /\ seen.status = ""
  /\ Defined = {"global", "embedded"}
  /\ props["global"] # props["embedded"]
  /\ seen.value = props["global"]

-----------------------------------------------------------------------------
(* Job handlers *)

At(calls, ev) == {i \in DOMAIN calls : calls[i].ev = ev}

(* The project whose jobs an add_job or merge_into call adds to *)
Target == IF last.op = "merge_into" THEN last.into ELSE last.proj

Added == DOMAIN jobs[Target] \ DOMAIN last.pre.jobs[Target]

(* C13: each successful add_job(name, job) calls job.on_add(project, name)
   exactly once and only after the job is in the project, so a merge_into
   calls on_add with the target project for every merged job; each build
   calls job.on_build(project, name) exactly once per job, before that
   job's file is generated and added to the archive; neither handler is
   called for a job whose add_job was rejected or when build fails its
   preconditions. *)
C13_HandlerOrder ==
  /\ last.op \in {"add_job", "merge_into"} =>
       /\ At(last.calls, "on_build") = {}
       /\ \A i \in At(last.calls, "on_add") :
            /\ i > 1
            /\ last.calls[i - 1] = [last.calls[i] EXCEPT !.ev = "bind"]
            /\ last.calls[i].proj = Target
            /\ last.calls[i].name \in Added
            /\ last.calls[i].job = jobs[Target][last.calls[i].name]
       /\ \A n \in Added :
            Cardinality({i \in At(last.calls, "on_add") : last.calls[i].name = n}) = 1
       /\ last.op = "add_job" =>
            Cardinality(At(last.calls, "on_add")) = (IF Returned THEN 1 ELSE 0)
       /\ (last.op = "merge_into" /\ Returned /\ last.proj # last.into) =>
            Added = DOMAIN last.pre.jobs[last.proj]
  /\ last.op = "build" =>
       /\ At(last.calls, "on_add") = {}
       /\ Raised => last.calls = <<>>
       /\ ~Raised =>
            /\ \A n \in DOMAIN jobs[last.proj] :
                 Cardinality({i \in At(last.calls, "on_build") : last.calls[i].name = n}) = 1
            /\ \A i \in At(last.calls, "on_build") :
                 /\ last.calls[i].proj = last.proj
                 /\ last.calls[i].name \in DOMAIN jobs[last.proj]
                 /\ last.calls[i].job = jobs[last.proj][last.calls[i].name]
                 /\ i < Len(last.calls)
                 /\ last.calls[i + 1].ev = "write"
                 /\ last.calls[i + 1].name = job_entry(last.calls[i].name)
                 /\ \A k \in 1..(i - 1) :
                      ~(last.calls[k].ev = "write"
                          /\ last.calls[k].name = job_entry(last.calls[i].name))

(* A project that got its two jobs by a merge is built. *)
C13_Witness ==
  /\ last.op = "build"
  /\ Returned
  /\ last.proj = "b"
  /\ Cardinality(DOMAIN jobs["b"]) = 2
  /\ jobs["b"] = jobs["a"]
  /\ Cardinality(At(last.calls, "on_build")) = 2

(* d2 holds everything d1 holds, unchanged *)
Extends(d2, d1) == \A k \in DOMAIN d1 : k \in DOMAIN d2 /\ d2[k] = d1[k]

MergeRaised == last.op = "merge_into" /\ Raised

(* C14 as stated: merge_into is all-or-nothing on the target: if
   a.merge_into(b) raises AzkabanError, b's jobs and files are the same as
   before the call, for every pair of projects including a being b. *)
C14_MergeAllOrNothing ==
  MergeRaised => /\ jobs[last.into] = last.pre.jobs[last.into]
                 /\ files[last.into] = last.pre.files[last.into]

(* C14 amended: if a.merge_into(b) raises AzkabanError, b still holds
   everything it held before, unchanged, and may in addition hold jobs and
   files of a that were added before the failing one: what is new in b is
   a's, under the same name and destination; b's files are unchanged
   unless all of a's jobs were added; b is unchanged when a is b. *)
C14_MergePartialOnError ==
  MergeRaised =>
    LET a == last.proj
        b == last.into
        pre == last.pre
    IN /\ Extends(jobs[b], pre.jobs[b])
       /\ Extends(files[b], pre.files[b])
       /\ \A n \in DOMAIN jobs[b] \ DOMAIN pre.jobs[b] :
            n \in DOMAIN pre.jobs[a] /\ jobs[b][n] = pre.jobs[a][n]
       /\ \A f \in DOMAIN files[b] \ DOMAIN pre.files[b] :
            f \in DOMAIN pre.files[a] /\ files[b][f] = pre.files[a][f]
       /\ files[b] # pre.files[b] => Extends(jobs[b], pre.jobs[a])
       /\ ~Extends(jobs[b], pre.jobs[a]) => files[b] = pre.files[b]
       /\ a = b => jobs[b] = pre.jobs[b] /\ files[b] = pre.files[b]
       /\ a # b => jobs[a] = pre.jobs[a] /\ files[a] = pre.files[a]

(* A merge into another project fails on a file after all the jobs and an
   earlier file of the source were added to the target. *)
C14_Witness ==
  /\ MergeRaised
  /\ last.proj # last.into
  /\ jobs[last.into] # last.pre.jobs[last.into]
  /\ files[last.into] # last.pre.files[last.into]

====
